---------------------------- MODULE Spec2Model ----------------------------
(***************************************************************************)
(* Model of the cw4-stake contract (contracts/cw4-stake/src/contract.rs):  *)
(* the membership-weight ledger, the batched migration to DAO DAO, claim   *)
(* settlement and the member queries.                                      *)
(*                                                                         *)
(* Number widths.  TLC's integers are 32 bit, so the two widths of the     *)
(* code are scaled: U64_MAX stands for u64::MAX and U128_MAX for           *)
(* u128::MAX.  Every conversion and every arithmetic operator of the code  *)
(* is modelled at its width: `as u64` truncates modulo U64_MAX + 1, the    *)
(* u64 `+`/`-` of update_membership and the Uint128 `-`/`-=` of the        *)
(* migration fault when the result leaves the range (Uint128's operators   *)
(* panic; the u64 ones panic under the overflow checks the contract is     *)
(* built with).                                                            *)
(*                                                                         *)
(* Atomicity.  A handler that returns Err or panics leaves the storage as  *)
(* it was (the chain reverts the call): such a step changes only `last`,   *)
(* the record of the latest call and its response.                         *)
(***************************************************************************)
EXTENDS Integers, Sequences, FiniteSets, TLC

\* ---------------------------------------------------------------- bounds
NumAddr == 2        \* addresses are 1..NumAddr, ordered as Addr keys are
U64_MAX == 2        \* stands for u64::MAX (weights, TOTAL)
U128_MAX == 3       \* stands for u128::MAX (stakes, claim amounts)
MaxTokensPerWeight == 2
MaxMinBond == 2
MaxHeight == 2      \* block heights are 1..MaxHeight
MaxClaims == 1      \* claims pending in the claim store
MaxPending == 2     \* claims pending in the claim store under ClaimSpec
MaxNum == 2         \* the `num` of MigrateToDaoDao ranges over 0..MaxNum
MaxUnbondingPeriod == 1
MaxListAddr == 32   \* addresses under ListSpec are 1..MaxListAddr
ListGap == 1        \* under ListSpec addresses 1..ListGap join and leave freely

Addrs == 1..NumAddr
QueryHeights == 0..(MaxHeight + 1)  \* the at_height of a Member query
Hooks == {"hook"}
ListAddrs == 1..MaxListAddr

\* Option<T>: None is <<>>, Some(v) is <<v>>.
None == <<>>
Some(v) == <<v>>
unwrap_or_default(o) == IF o = None THEN 0 ELSE o[1]

VARIABLES
    CONFIG,     \* Config: tokens_per_weight, min_bond, unbonding_period
    STAKE,      \* Map<&Addr, Uint128>: 0 stands for no entry
    MEMBERS,    \* SnapshotMap primary: Addr -> Option<u64>
    changelog,  \* SnapshotMap changelog: set of [k, height, old]
    TOTAL,      \* Item<u64>
    CLAIMS,     \* Claims: Addr -> Seq of [amount, release_at]
    DAO_DAO,    \* Item<Addr>: None until migrate sets it
    HOOKS,      \* Hooks: set of subscriber addresses
    height,     \* env.block.height
    balance,    \* native tokens the contract holds
    last        \* the latest call and its response

vars == <<CONFIG, STAKE, MEMBERS, changelog, TOTAL, CLAIMS, DAO_DAO, HOOKS,
          height, balance, last>>

\* ------------------------------------------------------------- helpers
Min(a, b) == IF a < b THEN a ELSE b
Max(a, b) == IF a < b THEN b ELSE a

\* `w as u64`: the cast keeps the low 64 bits.
as_u64(w) == w % (U64_MAX + 1)

\* ------------------------------------------------------------ calc_weight
\* `stake.u128() / cfg.tokens_per_weight.u128()` panics on a zero divisor.
calc_weight_panics(stake, cfg) ==
    stake >= cfg.min_bond /\ cfg.tokens_per_weight = 0

calc_weight(stake, cfg) ==
    IF stake < cfg.min_bond THEN None
    ELSE Some(as_u64(stake \div cfg.tokens_per_weight))

\* -------------------------------------------------------------- instantiate
\* min_bond is at least 1; TOTAL starts at 0; nothing else is stored.
instantiate(tokens_per_weight, min_bond, unbonding_period) ==
    [tokens_per_weight |-> tokens_per_weight,
     min_bond |-> Max(min_bond, 1),
     unbonding_period |-> unbonding_period]

Init ==
    /\ \E tpw \in 0..MaxTokensPerWeight, mb \in 0..MaxMinBond,
          up \in 1..MaxUnbondingPeriod :
          CONFIG = instantiate(tpw, mb, up)
    /\ STAKE = [a \in Addrs |-> 0]
    /\ MEMBERS = [a \in Addrs |-> None]
    /\ changelog = {}
    /\ TOTAL = 0
    /\ CLAIMS = [a \in Addrs |-> <<>>]
    /\ DAO_DAO = None
    /\ HOOKS = {}
    /\ height = 1
    /\ balance = 0
    /\ last = [op |-> "instantiate", ok |-> TRUE]

\* ------------------------------------------------------------ SnapshotMap
\* write_change: the first change of a key in a block records the value the
\* key had before it; later changes in the same block record nothing.
write_change_skipped(cl, m, k, h) == cl
write_change(cl, m, k, h) ==
    IF \E c \in cl : c.k = k /\ c.height = h THEN cl
    ELSE cl \cup {[k |-> k, height |-> h, old |-> m[k]]}

\* may_load_at_height: the old value of the first changelog entry at a height
\* >= h, the current value when there is none.
may_load_at_height_after(cl, m, k, h) ==
    LET later == {c \in cl : c.k = k /\ c.height > h} IN
    IF later = {} THEN m[k]
    ELSE (CHOOSE c \in later : \A d \in later : c.height <= d.height).old
may_load_at_height(cl, m, k, h) ==
    LET later == {c \in cl : c.k = k /\ c.height >= h} IN
    IF later = {} THEN m[k]
    ELSE (CHOOSE c \in later : \A d \in later : c.height <= d.height).old

may_load(m, k) == m[k]

\* -------------------------------------------------------- update_membership
\* `if new == old { return Ok(vec![]) }`
no_change_never(new, old) == FALSE
no_change(new, old) == new = old

\* `total + new.unwrap_or_default() - old.unwrap_or_default()`
total_forgets_old(total, new, old) == total + unwrap_or_default(new)
total_after(total, new, old) ==
    total + unwrap_or_default(new) - unwrap_or_default(old)

\* The result of update_membership on (MEMBERS, changelog, TOTAL): ok is
\* FALSE when the call panics, msgs are the hook messages returned.
update_membership(m, cl, total, hooks, sender, new_stake, cfg, h) ==
    LET new == calc_weight(new_stake, cfg)
        old == may_load(m, sender)
        sum == total + unwrap_or_default(new)
    IN  IF calc_weight_panics(new_stake, cfg)
        THEN [ok |-> FALSE, MEMBERS |-> m, changelog |-> cl, TOTAL |-> total,
              msgs |-> {}]
        ELSE IF no_change(new, old)
        THEN [ok |-> TRUE, MEMBERS |-> m, changelog |-> cl, TOTAL |-> total,
              msgs |-> {}]
        ELSE IF sum > U64_MAX \/ sum < unwrap_or_default(old)
        THEN [ok |-> FALSE, MEMBERS |-> m, changelog |-> cl, TOTAL |-> total,
              msgs |-> {}]
        ELSE [ok |-> TRUE,
              MEMBERS |-> [m EXCEPT ![sender] = new],
              changelog |-> write_change(cl, m, sender, h),
              TOTAL |-> total_after(total, new, old),
              msgs |-> {[hook |-> x, addr |-> sender, old |-> old, new |-> new]
                          : x \in hooks}]

RECURSIVE SumLen(_, _)
SumLen(f, S) ==
    IF S = {} THEN 0
    ELSE LET x == CHOOSE y \in S : TRUE IN Len(f[x]) + SumLen(f, S \ {x})

NumClaims == SumLen(CLAIMS, DOMAIN CLAIMS)

\* The stake-changing entry points that call update_membership after moving
\* STAKE[sender] to new_stake: a larger stake is a deposit, a smaller one an
\* unbonding whose difference becomes a claim maturing unbonding_period blocks
\* later.
SetStakeCapped(sender, new_stake, cap) ==
    LET r == update_membership(MEMBERS, changelog, TOTAL, HOOKS, sender,
                               new_stake, CONFIG, height)
        cur == STAKE[sender]
        call == [op |-> "update_membership", sender |-> sender,
                 repeat |-> /\ last.op = "update_membership"
                            /\ last.ok
                            /\ last.sender = sender
                            /\ STAKE[sender] = new_stake]
    IN  /\ new_stake < cur => NumClaims < cap
        /\ IF r.ok
           THEN /\ STAKE' = [STAKE EXCEPT ![sender] = new_stake]
                /\ MEMBERS' = r.MEMBERS
                /\ changelog' = r.changelog
                /\ TOTAL' = r.TOTAL
                /\ CLAIMS' = IF new_stake < cur
                             THEN [CLAIMS EXCEPT ![sender] = Append(@,
                                     [amount |-> cur - new_stake,
                                      release_at |-> height + CONFIG.unbonding_period])]
                             ELSE CLAIMS
                /\ balance' = IF new_stake > cur
                              THEN balance + (new_stake - cur) ELSE balance
                /\ last' = call @@
                           [ok |-> TRUE, msgs |-> r.msgs]
           ELSE /\ UNCHANGED <<STAKE, MEMBERS, changelog, TOTAL, CLAIMS, balance>>
                /\ last' = call @@ [ok |-> FALSE]
        /\ UNCHANGED <<CONFIG, DAO_DAO, HOOKS, height>>

SetStake(sender, new_stake) == SetStakeCapped(sender, new_stake, MaxClaims)

\* ------------------------------------------------------------------ migrate
\* The upgrade entry point: stores the successor's address.
migrate(dao_dao_addr) ==
    /\ DAO_DAO' = Some(dao_dao_addr)
    /\ last' = [op |-> "migrate", ok |-> TRUE]
    /\ UNCHANGED <<CONFIG, STAKE, MEMBERS, changelog, TOTAL, CLAIMS, HOOKS,
                   height, balance>>

\* ------------------------------------------------- execute: MigrateToDaoDao
\* MEMBERS.range(.., Order::Ascending): the (addr, weight) pairs by address.
RECURSIVE range_from(_, _)
range_from(m, a) ==
    IF a \notin DOMAIN m THEN <<>>
    ELSE (IF m[a] = None THEN <<>> ELSE << <<a, m[a][1]>> >>)
         \o range_from(m, a + 1)

range(m) == range_from(m, 1)

take(s, n) == SubSeq(s, 1, Min(n, Len(s)))

\* Uint128 `-`: the result, or a panic ("attempt to subtract with overflow").
Uint128_sub_panics(a, b) == b > a
Uint128_sub(a, b) == a - b

\* `for (addr, weight) in &items { MEMBERS.remove(..); sum -= weight; }`
\* started with the sum acc: the members and changelog after the loop, the
\* sum, and whether a `sum -= weight` panicked.
RECURSIVE remove_all(_, _, _, _, _)
remove_all(items, m, cl, h, acc) ==
    IF items = <<>>
    THEN [ok |-> TRUE, MEMBERS |-> m, changelog |-> cl, sum |-> acc]
    ELSE LET addr == items[1][1]
             weight == items[1][2]
         IN  IF Uint128_sub_panics(acc, weight)
             THEN [ok |-> FALSE, MEMBERS |-> m, changelog |-> cl, sum |-> acc]
             ELSE remove_all(Tail(items),
                             [m EXCEPT ![addr] = None],
                             write_change(cl, m, addr, h),
                             h, Uint128_sub(acc, weight))

\* `DAO_DAO.load(deps.storage)?`: Err while the item was never saved.
DAO_DAO_load_or_default(d) ==
    [ok |-> TRUE, addr |-> IF d = None THEN "" ELSE d[1]]
DAO_DAO_load(d) ==
    [ok |-> d # None, addr |-> IF d = None THEN "" ELSE d[1]]

\* The message carries num and num_claims; the handler binds num only.
MigrateToDaoDao(num, num_claims) ==
    LET items == take(range(MEMBERS), num)
        r == remove_all(items, MEMBERS, changelog, height, 0)
        dao == DAO_DAO_load(DAO_DAO)
        call == [op |-> "migrate_to_dao_dao", num |-> num,
                 num_claims |-> num_claims]
        faults == \/ ~r.ok
                  \/ Uint128_sub_panics(TOTAL, r.sum)
                  \/ Uint128_sub(TOTAL, r.sum) > U64_MAX
                  \/ ~dao.ok
                  \/ r.sum > balance
    IN  /\ IF faults
           THEN /\ UNCHANGED <<MEMBERS, changelog, TOTAL, balance>>
                /\ last' = call @@ [ok |-> FALSE]
           ELSE /\ MEMBERS' = r.MEMBERS
                /\ changelog' = r.changelog
                /\ TOTAL' = Uint128_sub(TOTAL, r.sum)
                /\ balance' = balance - r.sum
                /\ last' = call @@
                           [ok |-> TRUE,
                            msgs |-> << [contract_addr |-> dao.addr,
                                         weights |-> items,
                                         funds |-> r.sum] >>]
        /\ UNCHANGED <<CONFIG, STAKE, CLAIMS, DAO_DAO, HOOKS, height>>

\* ------------------------------------------------------------ execute_claim
\* Claims::claim_tokens: a claim is released once the block height has
\* reached its release_at.
is_expired_late(c, h) == h > c.release_at
is_expired(c, h) == h >= c.release_at

RECURSIVE SumAmounts(_)
SumAmounts(cs) ==
    IF cs = <<>> THEN 0 ELSE cs[1].amount + SumAmounts(Tail(cs))

\* The claims claim_tokens keeps: those not yet expired.
waiting_keeps_all(cs, h) == cs
waiting(cs, h) == SelectSeq(cs, LAMBDA c : ~is_expired(c, h))

\* `if release.is_zero() { return Err(ContractError::NothingToClaim {}) }`
nothing_to_claim_never(release) == FALSE
nothing_to_claim(release) == release = 0

execute_claim(sender) ==
    LET matured == SelectSeq(CLAIMS[sender], LAMBDA c : is_expired(c, height))
        pending == waiting(CLAIMS[sender], height)
        release == SumAmounts(matured)
        call == [op |-> "claim", sender |-> sender, height |-> height]
    IN  /\ IF nothing_to_claim(release)
           THEN /\ UNCHANGED <<CLAIMS, balance>>
                /\ last' = call @@ [ok |-> FALSE, err |-> "NothingToClaim"]
           ELSE /\ CLAIMS' = [CLAIMS EXCEPT ![sender] = pending]
                /\ balance' = balance - release
                /\ last' = call @@
                           [ok |-> TRUE,
                            msgs |-> << [to_address |-> sender,
                                         amount |-> release] >>]
        /\ UNCHANGED <<CONFIG, STAKE, MEMBERS, changelog, TOTAL, DAO_DAO,
                       HOOKS, height>>

\* ------------------------------------------------------------- query_member
\* The weight of addr at the height, or the current one with no height.
query_member_in(cl, m, addr, h) ==
    IF h = None THEN may_load(m, addr)
    ELSE may_load_at_height(cl, m, addr, h[1])

query_member(addr, h) == query_member_in(changelog, MEMBERS, addr, h)

\* ------------------------------------------------------------- list_members
\* settings for pagination
MAX_LIMIT == 30
DEFAULT_LIMIT == 10

\* `limit.unwrap_or(DEFAULT_LIMIT).min(MAX_LIMIT)`
limit_unclamped(limit) == IF limit = None THEN DEFAULT_LIMIT ELSE limit[1]
limit_clamped(limit) ==
    Min(IF limit = None THEN DEFAULT_LIMIT ELSE limit[1], MAX_LIMIT)

\* `MEMBERS.range(storage, start, None, Order::Ascending)` with
\* start = start_after.map(Bound::exclusive).
range_after(m, start_after) ==
    SelectSeq(range(m),
              LAMBDA item : start_after = None \/ item[1] > start_after[1])

list_members_in(m, start_after, limit) ==
    LET items == take(range_after(m, start_after), limit_clamped(limit))
    IN  [i \in 1..Len(items) |->
            [addr |-> items[i][1], weight |-> items[i][2]]]

\* The ListMembers query: read-only, its response is recorded in `last`.
list_members(start_after, limit) ==
    /\ last' = [op |-> "list_members", ok |-> TRUE,
                start_after |-> start_after, limit |-> limit,
                members |-> list_members_in(MEMBERS, start_after, limit)]
    /\ UNCHANGED <<CONFIG, STAKE, MEMBERS, changelog, TOTAL, CLAIMS, DAO_DAO,
                   HOOKS, height, balance>>

\* ------------------------------------------------------------- environment
\* The admin registers a hook subscriber.
AddHook(h) ==
    /\ h \notin HOOKS
    /\ HOOKS' = HOOKS \cup {h}
    /\ last' = [op |-> "add_hook", ok |-> TRUE]
    /\ UNCHANGED <<CONFIG, STAKE, MEMBERS, changelog, TOTAL, CLAIMS, DAO_DAO,
                   height, balance>>

\* The chain moves to the next block.
NextBlock ==
    /\ height < MaxHeight
    /\ height' = height + 1
    /\ UNCHANGED <<CONFIG, STAKE, MEMBERS, changelog, TOTAL, CLAIMS, DAO_DAO,
                   HOOKS, balance, last>>

Next ==
    \/ \E a \in Addrs, s \in 0..U128_MAX : SetStake(a, s)
    \/ migrate("dao_dao")
    \/ \E num \in 0..MaxNum, num_claims \in 0..MaxNum :
          MigrateToDaoDao(num, num_claims)
    \/ \E a \in Addrs : execute_claim(a)
    \/ \E h \in Hooks : AddHook(h)
    \/ NextBlock

Spec == Init /\ [][Next]_vars

\* ------------------------------------------- claim settlement in isolation
\* The same contract with room for more pending claims, without the hook
\* registry, which no claim path reads, with the smallest min_bond and with
\* whole-ledger migration batches.
ClaimInit ==
    /\ \E tpw \in 0..MaxTokensPerWeight, up \in 1..MaxUnbondingPeriod :
          CONFIG = instantiate(tpw, 1, up)
    /\ STAKE = [a \in Addrs |-> 0]
    /\ MEMBERS = [a \in Addrs |-> None]
    /\ changelog = {}
    /\ TOTAL = 0
    /\ CLAIMS = [a \in Addrs |-> <<>>]
    /\ DAO_DAO = None
    /\ HOOKS = {}
    /\ height = 1
    /\ balance = 0
    /\ last = [op |-> "instantiate", ok |-> TRUE]

Unbond(sender, new_stake) == SetStakeCapped(sender, new_stake, MaxPending)

ClaimNext ==
    \/ \E a \in Addrs, s \in 0..U128_MAX : Unbond(a, s)
    \/ migrate("dao_dao")
    \/ MigrateToDaoDao(MaxNum, MaxNum)
    \/ \E a \in Addrs : execute_claim(a)
    \/ NextBlock

ClaimSpec == ClaimInit /\ [][ClaimNext]_vars

\* ------------------------------------------------ the listing in isolation
\* The contract with enough addresses to fill more than a page.  Weights are
\* kept small by the largest tokens_per_weight; addresses above ListGap join
\* in order, the ones up to ListGap bond and unbond freely.
ListInit ==
    /\ CONFIG = instantiate(MaxTokensPerWeight, 1, 1)
    /\ STAKE = [a \in ListAddrs |-> 0]
    /\ MEMBERS = [a \in ListAddrs |-> None]
    /\ changelog = {}
    /\ TOTAL = 0
    /\ CLAIMS = [a \in ListAddrs |-> <<>>]
    /\ DAO_DAO = None
    /\ HOOKS = {}
    /\ height = 1
    /\ balance = 0
    /\ last = [op |-> "instantiate", ok |-> TRUE]

Bond(sender, new_stake) ==
    /\ sender > ListGap =>
          (new_stake = 1 /\ STAKE[sender] = 0 /\ MEMBERS[sender - 1] # None)
    /\ SetStake(sender, new_stake)

Cursors ==
    {None} \cup {Some(a) : a \in (0..(ListGap + 1)) \cup {MaxListAddr}}
Limits ==
    {None} \cup {Some(l) : l \in {0, 1, DEFAULT_LIMIT, MAX_LIMIT - 1,
                                  MAX_LIMIT, MAX_LIMIT + 1, 1000}}

ListNext ==
    \/ \E a \in ListAddrs, s \in 0..2 : Bond(a, s)
    \/ \E start_after \in Cursors, limit \in Limits :
          list_members(start_after, limit)

ListSpec == ListInit /\ [][ListNext]_vars

\* ----------------------------------------------------------- properties
\* ======================================================================
\* Properties
\* ======================================================================
RECURSIVE SumOver(_, _)
SumOver(f, S) ==
    IF S = {} THEN 0
    ELSE LET x == CHOOSE y \in S : TRUE IN f[x] + SumOver(f, S \ {x})

RECURSIVE SumWeights(_, _)
SumWeights(m, S) ==
    IF S = {} THEN 0
    ELSE LET x == CHOOSE y \in S : TRUE
         IN  unwrap_or_default(m[x]) + SumWeights(m, S \ {x})

MigrateOk == last.op = "migrate_to_dao_dao" /\ last.ok
UpdateOk == last.op = "update_membership" /\ last.ok

\* The addresses a migration message lists.
ListedAddrs(weights) == {weights[i][1] : i \in 1..Len(weights)}

\* C1: after any sequence of update_membership and MigrateToDaoDao calls the
\* stored TOTAL equals the sum of the membership weights currently recorded.
C1_TotalIsSumOfWeights == TOTAL = SumWeights(MEMBERS, Addrs)

\* A migration has just removed a member while another member keeps a
\* positive weight.
C1_Witness ==
    /\ MigrateOk
    /\ last.msgs[1].weights # <<>>
    /\ TOTAL > 0

\* C2: migration run until it finds nothing more to migrate has moved every
\* entry: once a call with num >= 1 sends an empty list, the stake ledger and
\* the claim store are empty and every token the contract held for them has
\* been transferred.
C2_DrainedMeansAllMigrated ==
    (MigrateOk /\ last.num >= 1 /\ last.msgs[1].weights = <<>>)
        => /\ \A a \in Addrs : STAKE[a] = 0 /\ CLAIMS[a] = <<>>
           /\ balance = 0

\* C3: the funds attached to the successor message of a successful migration
\* are the staked tokens of the entries it lists plus the claim amounts it
\* removed from the claim store.
C3_FundsAreTokenSum ==
    [][\A num \in 0..MaxNum, num_claims \in 0..MaxNum :
         (MigrateToDaoDao(num, num_claims) /\ last'.ok)
            => last'.msgs[1].funds =
                 SumOver(STAKE, ListedAddrs(last'.msgs[1].weights))
                 + SumOver([a \in Addrs |-> SumAmounts(CLAIMS[a])
                                            - SumAmounts(CLAIMS'[a])], Addrs)]_vars

\* The (addr, staked amount) pairs, by ascending address, of the stake entries
\* of S.
RECURSIVE StakePairs(_, _, _)
StakePairs(st, S, a) ==
    IF a > NumAddr THEN <<>>
    ELSE (IF a \in S THEN << <<a, st[a]>> >> ELSE <<>>) \o StakePairs(st, S, a + 1)

\* C4: a successful migration emits exactly one message, to DAO_DAO, whose
\* weights list is the (address, staked amount) pairs of the stake entries the
\* call removed from the stake ledger.
C4_MessageListsRemovedStakes ==
    [][\A num \in 0..MaxNum, num_claims \in 0..MaxNum :
         (MigrateToDaoDao(num, num_claims) /\ last'.ok)
            => /\ Len(last'.msgs) = 1
               /\ last'.msgs[1].contract_addr = DAO_DAO[1]
               /\ last'.msgs[1].weights =
                    StakePairs(STAKE,
                               {a \in Addrs : STAKE[a] > 0 /\ STAKE'[a] = 0}, 1)]_vars

\* The n smallest addresses of S.
RECURSIVE Smallest(_, _)
Smallest(S, n) ==
    IF n = 0 \/ S = {} THEN {}
    ELSE LET x == CHOOSE y \in S : \A z \in S : y <= z
         IN  {x} \cup Smallest(S \ {x}, n - 1)

\* C5: a successful MigrateToDaoDao(num) removes the min(num, size) stake
\* entries with the smallest addresses and leaves every other entry as it was.
C5_RemovesSmallestStakes ==
    [][\A num \in 0..MaxNum, num_claims \in 0..MaxNum :
         (MigrateToDaoDao(num, num_claims) /\ last'.ok)
            => LET gone == Smallest({a \in Addrs : STAKE[a] > 0}, num)
               IN  STAKE' = [a \in Addrs |-> IF a \in gone THEN 0 ELSE STAKE[a]]]_vars

\* C6: with the successor address set, every MigrateToDaoDao call with
\* num >= 1 succeeds.
C6_EveryCallSucceeds ==
    (last.op = "migrate_to_dao_dao" /\ last.num >= 1 /\ DAO_DAO # None)
        => last.ok

\* C7: an address has a membership weight iff its stake is at least min_bond.
C7_MemberIffBonded ==
    \A a \in Addrs : (MEMBERS[a] # None) <=> (STAKE[a] >= CONFIG.min_bond)

\* C8: with a positive tokens_per_weight, the weight update_membership stores
\* for a stake s is absent iff s < min_bond and floor(s / tokens_per_weight)
\* otherwise, and no smaller stake has a larger weight.
C8_WeightIsFloor ==
    (UpdateOk /\ CONFIG.tokens_per_weight > 0)
        => LET s == STAKE[last.sender]
               w == MEMBERS[last.sender]
           IN  /\ (w = None) <=> (s < CONFIG.min_bond)
               /\ w # None => w[1] = s \div CONFIG.tokens_per_weight
               /\ \A s1 \in 0..s :
                     LET w1 == calc_weight(s1, CONFIG)
                     IN  \/ w1 = None
                         \/ (w # None /\ w1[1] <= w[1])

\* C9: a second update_membership call for the same address with the same
\* new stake writes no snapshot, leaves TOTAL unchanged and returns no
\* messages.
C9_Idempotent ==
    [][(UpdateOk /\ last'.op = "update_membership" /\ last'.repeat
          /\ height' = height)
          => /\ last'.ok
             /\ last'.msgs = {}
             /\ MEMBERS' = MEMBERS
             /\ changelog' = changelog
             /\ TOTAL' = TOTAL]_vars

\* A repeated call for a member, with a hook subscriber registered.
C9_Witness ==
    /\ UpdateOk
    /\ last.repeat
    /\ HOOKS # {}
    /\ MEMBERS[last.sender] # None
    /\ unwrap_or_default(MEMBERS[last.sender]) > 0

\* C10 as claimed: after update_membership at height H changes the weight of
\* A from W0 to W1, a query at any height < H returns W0 and a query at any
\* height >= H, or with no height, returns W1.
C10_QueryAtOrAfterHeightIsNew ==
    [][LET a == last'.sender IN
       (last'.op = "update_membership" /\ MEMBERS'[a] # MEMBERS[a])
          => /\ query_member_in(changelog', MEMBERS', a, None) = MEMBERS'[a]
             /\ \A h \in QueryHeights :
                  query_member_in(changelog', MEMBERS', a, Some(h)) =
                      IF h < height THEN MEMBERS[a] ELSE MEMBERS'[a]]_vars

\* C10 as amended: the call leaves the answer of every query at a height
\* <= H as it was (W0 at height H itself when this is the first change of A in
\* block H), and a query at a height > H, or with no height, returns W1.
C10_QueryAfterHeightIsNew ==
    [][LET a == last'.sender IN
       (last'.op = "update_membership" /\ MEMBERS'[a] # MEMBERS[a])
          => /\ query_member_in(changelog', MEMBERS', a, None) = MEMBERS'[a]
             /\ \A h \in QueryHeights :
                  /\ h > height =>
                       query_member_in(changelog', MEMBERS', a, Some(h)) = MEMBERS'[a]
                  /\ h <= height =>
                       query_member_in(changelog', MEMBERS', a, Some(h)) =
                          query_member_in(changelog, MEMBERS, a, Some(h))
                  /\ (h = height /\ ~\E c \in changelog :
                                        c.k = a /\ c.height = height) =>
                       query_member_in(changelog', MEMBERS', a, Some(h)) = MEMBERS[a]]_vars

\* An update in the second block has just changed a weight from one value to
\* another: the query at that height still answers the old weight.
C10_Witness ==
    /\ UpdateOk
    /\ last.msgs # {}
    /\ height > 1
    /\ MEMBERS[last.sender] # None
    /\ \E c \in changelog :
          /\ c.k = last.sender
          /\ c.height = height
          /\ c.old # None
          /\ c.old # MEMBERS[last.sender]
          /\ query_member(last.sender, Some(height)) = c.old
          /\ query_member(last.sender, Some(height + 1)) = MEMBERS[last.sender]

\* ------------------------------------------------------------------ claims
\* The claims of a list whose maturity height has been reached, and the rest.
MaturedAt(cs, h) == SelectSeq(cs, LAMBDA c : c.release_at <= h)
ImmatureAt(cs, h) == SelectSeq(cs, LAMBDA c : c.release_at > h)

RECURSIVE AmountOf(_)
AmountOf(cs) == IF cs = <<>> THEN 0 ELSE Head(cs).amount + AmountOf(Tail(cs))

ClaimOk == last.op = "claim" /\ last.ok

\* C11: a successful Claim pays the sender exactly the sum of their claims
\* whose maturity has been reached, removes those claims and leaves the
\* sender's immature claims and every other address's claims in place; a
\* Claim repeated at once by the same sender fails with NothingToClaim.
C11_ClaimReleasesMatured ==
    [][/\ \A a \in Addrs :
            (execute_claim(a) /\ AmountOf(MaturedAt(CLAIMS[a], height)) > 0) =>
                /\ last'.ok
                /\ last'.msgs = << [to_address |-> a,
                                    amount |-> AmountOf(MaturedAt(CLAIMS[a],
                                                                  height))] >>
                /\ balance' = balance - AmountOf(MaturedAt(CLAIMS[a], height))
                /\ CLAIMS'[a] = ImmatureAt(CLAIMS[a], height)
                /\ \A b \in Addrs \ {a} : CLAIMS'[b] = CLAIMS[b]
                /\ UNCHANGED <<STAKE, MEMBERS, changelog, TOTAL>>
       /\ (/\ ClaimOk
           /\ last.height = height
           /\ execute_claim(last.sender)) =>
                (~last'.ok /\ last'.err = "NothingToClaim")
      ]_vars

\* A Claim has just paid a matured claim and left the same sender's immature
\* claim pending.
C11_Witness ==
    /\ ClaimOk
    /\ last.height = height
    /\ last.msgs[1].amount > 0
    /\ CLAIMS[last.sender] # <<>>
    /\ \A i \in 1..Len(CLAIMS[last.sender]) :
           CLAIMS[last.sender][i].release_at > height

\* C12: a Claim by a sender none of whose claims has matured fails with
\* NothingToClaim, changes nothing in the contract's state and sends no
\* payout message.
C12_NothingToClaimChangesNothing ==
    [][\A a \in Addrs :
         (execute_claim(a) /\ AmountOf(MaturedAt(CLAIMS[a], height)) = 0) =>
             /\ ~last'.ok
             /\ last'.err = "NothingToClaim"
             /\ "msgs" \notin DOMAIN last'
             /\ UNCHANGED <<CONFIG, STAKE, MEMBERS, changelog, TOTAL, CLAIMS,
                            DAO_DAO, HOOKS, height, balance>>
      ]_vars

\* A Claim has just been refused while the sender holds a claim that has not
\* matured yet.
C12_Witness ==
    /\ last.op = "claim"
    /\ ~last.ok
    /\ last.height = height
    /\ CLAIMS[last.sender] # <<>>
    /\ balance > 0

\* ----------------------------------------------------------------- listing
\* The members a listing with this cursor has to choose from.
MembersAfter(start_after) ==
    {a \in DOMAIN MEMBERS :
        MEMBERS[a] # None /\ (start_after = None \/ a > start_after[1])}

\* C13: the member listing is never rejected and returns, in ascending
\* address order, the first members strictly after the optional cursor, at
\* most min(limit, 30) of them with the limit defaulting to 10: a limit of
\* 1000 yields 30 entries.
C13_ListIsPagedAscending ==
    last.op = "list_members" =>
        LET ms == last.members
            after == MembersAfter(last.start_after)
            page == Min(IF last.limit = None THEN 10 ELSE last.limit[1], 30)
        IN  /\ last.ok
            /\ Len(ms) = Min(page, Cardinality(after))
            /\ \A i, j \in 1..Len(ms) : i < j => ms[i].addr < ms[j].addr
            /\ \A i \in 1..Len(ms) :
                   /\ ms[i].addr \in after
                   /\ ms[i].weight = MEMBERS[ms[i].addr][1]
                   /\ \A b \in after :
                          b < ms[i].addr => \E k \in 1..(i - 1) : ms[k].addr = b

\* A listing with limit 1000 and a member's address as cursor has returned 30
\* members while more than 30 lie after the cursor.
C13_Witness ==
    /\ last.op = "list_members"
    /\ last.limit = Some(1000)
    /\ last.start_after # None
    /\ Len(last.members) = 30
    /\ Cardinality(MembersAfter(last.start_after)) > 30
    /\ last.start_after[1] \in DOMAIN MEMBERS
    /\ MEMBERS[last.start_after[1]] # None

\* --------------------------------------------------------------- migration
\* The addresses a migration of at most num members takes.
Migrated(num) == ListedAddrs(take(range(MEMBERS), num))

\* C14: a migration call, once the destination is set, succeeds whenever the
\* sum of the weights of the addresses it migrates does not exceed TOTAL, and
\* then lowers TOTAL by exactly that sum; it aborts only when the
\* subtraction would underflow.
C14_TotalDropsByMigratedWeights ==
    [][\A num \in 0..MaxNum, num_claims \in 0..MaxNum :
         (MigrateToDaoDao(num, num_claims) /\ DAO_DAO # None) =>
             IF SumWeights(MEMBERS, Migrated(num)) <= TOTAL
             THEN /\ last'.ok
                  /\ TOTAL' = TOTAL - SumWeights(MEMBERS, Migrated(num))
             ELSE ~last'.ok
      ]_vars

\* The first n addresses of S in ascending address order.
FirstAddrs(S, n) == {a \in S : Cardinality({b \in S : b < a}) < n}

\* The addresses holding an entry in the claim store.
ClaimHolders == {a \in Addrs : CLAIMS[a] # <<>>}

\* C15: a successful migration call with num_claims = m removes from the
\* claim store the entries of the first min(m, size) addresses in ascending
\* order, whatever members it migrated, leaves the other entries, and the
\* tokens it transfers include the amounts of all removed claims.
C15_MigrationTakesClaims ==
    [][\A num \in 0..MaxNum, num_claims \in 0..MaxNum :
         (MigrateToDaoDao(num, num_claims) /\ last'.ok) =>
             LET gone == FirstAddrs(ClaimHolders, num_claims)
             IN  /\ \A a \in gone : CLAIMS'[a] = <<>>
                 /\ \A a \in Addrs \ gone : CLAIMS'[a] = CLAIMS[a]
                 /\ last'.msgs[1].funds >=
                        SumOver([a \in Addrs |-> AmountOf(CLAIMS[a])], gone)
      ]_vars

\* C16: while DAO_DAO has never been set, a migration call fails, emits no
\* message and leaves every stake entry, membership weight, claim entry and
\* TOTAL as they were.
C16_UnsetSuccessorFails ==
    [][(/\ DAO_DAO = None
        /\ last'.op = "migrate_to_dao_dao"
        /\ MigrateToDaoDao(last'.num, last'.num_claims)) =>
             /\ ~last'.ok
             /\ "msgs" \notin DOMAIN last'
             /\ UNCHANGED <<CONFIG, STAKE, MEMBERS, changelog, TOTAL, CLAIMS,
                            DAO_DAO, HOOKS, height, balance>>
      ]_vars

\* A migration has just failed for want of DAO_DAO alone: it had members to
\* take and all of them weigh 0, so the weight loop went through.
C16_Witness ==
    /\ last.op = "migrate_to_dao_dao"
    /\ ~last.ok
    /\ DAO_DAO = None
    /\ Migrated(last.num) # {}
    /\ SumWeights(MEMBERS, Migrated(last.num)) = 0

\* ------------------------------------------------------- weight arithmetic
\* C17: when update_membership changes an address's weight from old to new,
\* the call succeeds and moves TOTAL by exactly (new or 0) - (old or 0)
\* whenever the resulting total fits the counter, and otherwise faults
\* leaving TOTAL as it was.
C17_TotalMovesWheneverItFits ==
    [][\A a \in Addrs, s \in 0..U128_MAX :
         (/\ SetStake(a, s)
          /\ ~calc_weight_panics(s, CONFIG)
          /\ calc_weight(s, CONFIG) # MEMBERS[a]) =>
             LET t == TOTAL + unwrap_or_default(calc_weight(s, CONFIG))
                            - unwrap_or_default(MEMBERS[a])
             IN  IF t \in 0..U64_MAX
                 THEN last'.ok /\ TOTAL' = t
                 ELSE ~last'.ok /\ TOTAL' = TOTAL
      ]_vars

\* C18: calc_weight never faults: no call applies it to a stake and a stored
\* Config on which it panics.
C18_CalcWeightNeverFaults ==
    [][\A a \in Addrs, s \in 0..U128_MAX :
         SetStake(a, s) => ~calc_weight_panics(s, CONFIG)
      ]_vars

\* ------------------------------------------------ history across migration
\* The members a step removes.
Removed == {a \in Addrs : MEMBERS[a] # None /\ MEMBERS'[a] = None}

\* C19 as stated: after a migration at height H removes the weight W of an
\* address, the current member query for it returns no weight and a member
\* query at any height < H returns W.
C19_QueryBelowHeightIsW ==
    [][(last'.op = "migrate_to_dao_dao" /\ last'.ok) =>
         \A a \in Removed :
            /\ query_member_in(changelog', MEMBERS', a, None) = None
            /\ \A h \in QueryHeights :
                  h < height =>
                     query_member_in(changelog', MEMBERS', a, Some(h)) = MEMBERS[a]
      ]_vars

\* C19 amended: after a migration at height H removes the weight W of an
\* address, the current member query and a member query at any height > H
\* return no weight, while a member query at any height <= H returns what it
\* returned before the call; that is W for every height with no earlier
\* change of the address at or after it, H itself included.
C19_QueryUpToHeightIsKept ==
    [][(last'.op = "migrate_to_dao_dao" /\ last'.ok) =>
         \A a \in Removed :
            /\ query_member_in(changelog', MEMBERS', a, None) = None
            /\ \A h \in QueryHeights :
                  /\ h > height =>
                       query_member_in(changelog', MEMBERS', a, Some(h)) = None
                  /\ h <= height =>
                       query_member_in(changelog', MEMBERS', a, Some(h)) =
                          query_member_in(changelog, MEMBERS, a, Some(h))
                  /\ (h <= height /\ ~\E c \in changelog :
                                         c.k = a /\ c.height >= h) =>
                       query_member_in(changelog', MEMBERS', a, Some(h)) = MEMBERS[a]
      ]_vars

\* A migration in block 2 has just removed a member that joined in block 1:
\* the current query returns no weight, the query at height 2 the removed
\* weight, the query at height 1 what preceded the joining.
C19_Witness ==
    /\ MigrateOk
    /\ height = 2
    /\ \E a \in ListedAddrs(last.msgs[1].weights) :
          /\ query_member(a, None) = None
          /\ query_member(a, Some(2)) # None
          /\ query_member(a, Some(1)) = None
          /\ \E c \in changelog : c.k = a /\ c.height = 2 /\ c.old # None
          /\ \E c \in changelog : c.k = a /\ c.height = 1 /\ c.old = None

\* ------------------------------------------------------------ conservation
\* The tokens the contract owes: every stake entry and every pending claim.
Owed(st, cs) ==
    SumOver(st, Addrs) + SumOver([a \in Addrs |-> AmountOf(cs[a])], Addrs)

\* C20: under any interleaving of Claim and migration calls a pending claim
\* amount leaves the contract at most once: the tokens a successful Claim or
\* migration sends out are exactly the stake and claim entries it removes,
\* and the contract holds at all times the tokens of the entries that remain,
\* so the tokens sent out never exceed what was staked.
C20_ClaimLeavesAtMostOnce ==
    [][/\ balance' = Owed(STAKE', CLAIMS')
       /\ (last'.op = "claim" /\ last'.ok /\ height' = height) =>
            LET a == last'.sender
            IN  /\ last'.msgs[1].amount = Owed(STAKE, CLAIMS) - Owed(STAKE', CLAIMS')
                /\ last'.msgs[1].amount = AmountOf(CLAIMS[a]) - AmountOf(CLAIMS'[a])
                /\ \A i \in 1..Len(CLAIMS'[a]) :
                       \E j \in 1..Len(CLAIMS[a]) : CLAIMS'[a][i] = CLAIMS[a][j]
       /\ (last'.op = "migrate_to_dao_dao" /\ last'.ok /\ height' = height) =>
            last'.msgs[1].funds = Owed(STAKE, CLAIMS) - Owed(STAKE', CLAIMS')
      ]_vars

\* A Claim has just paid a matured claim after a migration had removed a
\* member, while another claim is still pending.
C20_Witness ==
    /\ ClaimOk
    /\ last.msgs[1].amount > 0
    /\ DAO_DAO # None
    /\ \E b \in Addrs : STAKE[b] >= CONFIG.min_bond /\ MEMBERS[b] = None
    /\ \E b \in Addrs : CLAIMS[b] # <<>>

=============================================================================
